---- MODULE Spec2Model ----
EXTENDS Integers, Sequences, FiniteSets, TLC

(***************************************************************************)
(* URL shortening service: the service layer (CreateShortURL,              *)
(* GetOriginalURL, UpdateShortURL, DeleteShortURL, GetStatistics), the     *)
(* repository that talks to the record store over HTTP, the validator and  *)
(* the short code generator.  Each request runs on its own process; every  *)
(* HTTP exchange with the record store is one atomic step.                 *)
(***************************************************************************)

\* ------------------------------------------------------------------ bounds
NumProcs == 2
MaxReqs == 3
MaxLiveReqs == 2
MaxFaults == 1
MaxDraws == 2
MaxInputLen == 4
MaxGenLength == 3

\* ------------------------------------------------------- program constants
MaxAttempts == 10
CodeLength == 6
MaxRetries == 5
MaxURLLength == 2048
MinCodeLength == 4
MaxCodeLength == 20

ErrorCodeNotFound == 1
ErrorCodeDuplicate == 2
ErrorCodeValidation == 3
ErrorCodeInternal == 4
ErrorCodeBadRequest == 5

StatusOK == 200
StatusCreated == 201
StatusNoContent == 204
StatusBadRequest == 400
StatusNotFound == 404
StatusConflict == 409
StatusInternalServerError == 500

BlockedDomains == {"malware.com", "phishing.com"}

base62Chars ==
  << "0","1","2","3","4","5","6","7","8","9",
     "a","b","c","d","e","f","g","h","i","j","k","l","m",
     "n","o","p","q","r","s","t","u","v","w","x","y","z",
     "A","B","C","D","E","F","G","H","I","J","K","L","M",
     "N","O","P","Q","R","S","T","U","V","W","X","Y","Z" >>

Digits == {"0","1","2","3","4","5","6","7","8","9"}
LowerLetters == {"a","b","c","d","e","f","g","h","i","j","k","l","m",
                 "n","o","p","q","r","s","t","u","v","w","x","y","z"}
UpperLetters == {"A","B","C","D","E","F","G","H","I","J","K","L","M",
                 "N","O","P","Q","R","S","T","U","V","W","X","Y","Z"}

\* ------------------------------------------------------------------ errors
Nil == [nil |-> TRUE]

\* errors that are not ServiceErrors: what the transport, the status check
\* (fmt.Errorf("status %d")) and crypto/rand hand back
TransportErr == [raw |-> "transport"]
StatusErr(n) == [raw |-> "status", status |-> n]
RandErr == [raw |-> "rand"]
DecodeErr == [raw |-> "decode"]

NewNotFoundError(op, message) ==
  [code |-> ErrorCodeNotFound, op |-> op, message |-> message, err |-> Nil]

NewValidationError(op, message, err) ==
  [code |-> ErrorCodeValidation, op |-> op, message |-> message, err |-> err]

NewDuplicateError(op, message) ==
  [code |-> ErrorCodeDuplicate, op |-> op, message |-> message, err |-> Nil]

NewInternalErrorWithoutCause(op, message, err) ==
  [code |-> ErrorCodeInternal, op |-> op, message |-> message, err |-> Nil]

NewInternalError(op, message, err) ==
  [code |-> ErrorCodeInternal, op |-> op, message |-> message, err |-> err]

IsServiceError(e) == "code" \in DOMAIN e

\* ------------------------------------------------------------------ inputs
\* A raw URL is given by what the validator reads of it: its length, whether
\* net/url parses it, and the parsed scheme and host.
URL(len, parses, scheme, host) ==
  [len |-> len, parses |-> parses, scheme |-> scheme, host |-> host]

NoURL == URL(0, TRUE, "", "")
UrlExampleA == URL(21, TRUE, "https", "example.com")
UrlExampleB == URL(22, TRUE, "http", "example.org")
UrlFtp == URL(17, TRUE, "ftp", "example.com")
UrlBlocked == URL(20, TRUE, "http", "MALWARE.COM")
UrlSubBlocked == URL(24, TRUE, "http", "sub.malware.com")
UrlTooLong == URL(2049, TRUE, "https", "example.com")
UrlUnparsable == URL(12, FALSE, "", "")
UrlNoScheme == URL(9, TRUE, "", "")

CreateURLs == {UrlExampleA, UrlFtp}
UpdateURLs == {UrlExampleB, UrlBlocked}

CodeAbc123 == <<"a","b","c","1","2","3">>
CodeZeros == <<"0","0","0","0","0","0">>
CodeShort == <<"a","b">>
CodeDash == <<"a","b","c","-","1","2","3">>

NoCustom == [set |-> FALSE, val |-> <<>>]
Custom(c) == [set |-> TRUE, val |-> c]
CustomCodes == {NoCustom, Custom(CodeAbc123), Custom(CodeDash)}

\* the codes read, update, delete and statistics requests name
LookupCodes == {CodeAbc123}

\* What crypto/rand yields for one GenerateShortCode call: the numbers
\* rand.Int returns, -1 where it returns an error.
RandSources == { <<0, 0, 0, 0, 0, 0>>,
                 <<10, 11, 12, 1, 2, 3>>,
                 <<36, 1, -1, 0, 0, 0>> }

Procs == 1..NumProcs

\* characters of two bytes in UTF-8
NonASCII == {"é"}

\* Inputs of direct calls of the validator and the generator.
RawURLs ==
  { URL(l, ps, sc, h) :
      l \in {0, 21, MaxURLLength, MaxURLLength + 1},
      ps \in BOOLEAN,
      sc \in {"", "http", "https", "ftp"},
      h \in {"", "example.com", "malware.com", "MALWARE.COM", "Phishing.Com",
             "sub.malware.com", "malware.com:8080"} }

Repeat(char, n) == [i \in 1..n |-> char]

InputChars == {"a", "Z", "7", "-", "é"}

RECURSIVE SeqsUpTo(_, _)
SeqsUpTo(S, n) ==
  IF n = 0 THEN {<<>>}
  ELSE SeqsUpTo(S, n - 1) \cup {Append(q, c) : q \in SeqsUpTo(S, n - 1), c \in S}

RawCodes ==
  SeqsUpTo(InputChars, MaxInputLen)
    \cup {CodeAbc123, <<"A","1","b","2","C","3">>, CodeDash}
    \cup {Repeat("a", n) : n \in (MaxCodeLength - 1)..(MaxCodeLength + 1)}
    \cup {Append(Repeat("a", n), c) : n \in (MaxCodeLength - 2)..MaxCodeLength,
                                      c \in {"-", "é"}}

\* the codes IsValidShortCode is called on
CheckedCodes ==
  RawCodes \cup {<<"a", "_", "b", "c">>, <<"a", " ", "b", "c">>, <<"_">>, <<" ">>}

\* what rand.Int may return for one character: an index of base62Chars, or
\* -1 for an error
RandDraws == {0, 9, 10, 35, 36, 61, -1}

GenerateInputs ==
  { [length |-> n, rnd |-> r] :
      n \in 0..MaxGenLength,
      r \in {q \in SeqsUpTo(RandDraws, MaxGenLength) : Len(q) = MaxGenLength} }
    \cup { [length |-> CodeLength, rnd |-> r] : r \in RandSources }

ToLower(s) ==
  CASE s = "MALWARE.COM" -> "malware.com"
    [] s = "Phishing.Com" -> "phishing.com"
    [] OTHER -> s

\* --------------------------------------------------------------- validator
isAlphaNumericOrDash(char) ==
  char \in LowerLetters \/ char \in UpperLetters \/ char \in Digits \/ char = "-"

isAlphaNumeric(char) ==
  char \in LowerLetters \/ char \in UpperLetters \/ char \in Digits

isDomainBlockedWithSubdomains(domain) ==
  ToLower(domain) \in BlockedDomains \cup {"sub.malware.com"}

isDomainBlocked(domain) == ToLower(domain) \in BlockedDomains

ValidateURLIgnoringBlocked(rawURL) ==
  IF rawURL.len > MaxURLLength
    THEN NewValidationError("validator.ValidateURL", "URL too long", Nil)
  ELSE IF ~rawURL.parses
    THEN NewValidationError("validator.ValidateURL", "invalid URL format",
                            [raw |-> "parse"])
  ELSE IF rawURL.scheme # "http" /\ rawURL.scheme # "https"
    THEN NewValidationError("validator.ValidateURL",
                            "only HTTP and HTTPS URLs are allowed", Nil)
  ELSE Nil

ValidateURL(rawURL) ==
  IF rawURL.len > MaxURLLength
    THEN NewValidationError("validator.ValidateURL", "URL too long", Nil)
  ELSE IF ~rawURL.parses
    THEN NewValidationError("validator.ValidateURL", "invalid URL format",
                            [raw |-> "parse"])
  ELSE IF rawURL.scheme # "http" /\ rawURL.scheme # "https"
    THEN NewValidationError("validator.ValidateURL",
                            "only HTTP and HTTPS URLs are allowed", Nil)
  ELSE IF isDomainBlocked(rawURL.host)
    THEN NewValidationError("validator.ValidateURL", "domain is blocked", Nil)
  ELSE Nil

\* len(code): the bytes of the UTF-8 encoding of the string
RECURSIVE ByteLen(_)
ByteLen(code) ==
  IF code = <<>> THEN 0
  ELSE (IF Head(code) \in NonASCII THEN 2 ELSE 1) + ByteLen(Tail(code))

ValidateShortCode(code) ==
  IF ByteLen(code) < MinCodeLength \/ ByteLen(code) > MaxCodeLength
    THEN NewValidationError("validator.ValidateShortCode",
                            "short code must be between 4 and 20 characters", Nil)
  ELSE IF \E i \in 1..Len(code) : ~isAlphaNumeric(code[i])
    THEN NewValidationError("validator.ValidateShortCode",
                            "short code can only contain alphanumeric characters", Nil)
  ELSE Nil

\* --------------------------------------------------------------- generator
GenerateShortCodeOneShort(length, rnd) ==
  IF \E i \in 1..length : rnd[i] < 0
    THEN [code |-> <<>>, err |-> RandErr]
    ELSE [code |-> [i \in 1..(length - 1) |-> base62Chars[rnd[i] + 1]], err |-> Nil]

GenerateShortCodeRejectingEmpty(length, rnd) ==
  IF length = 0 \/ \E i \in 1..length : rnd[i] < 0
    THEN [code |-> <<>>, err |-> RandErr]
    ELSE [code |-> [i \in 1..length |-> base62Chars[rnd[i] + 1]], err |-> Nil]

\* rnd[i] is what rand.Int returns for the i-th character
GenerateShortCode(length, rnd) ==
  IF \E i \in 1..length : rnd[i] < 0
    THEN [code |-> <<>>, err |-> RandErr]
    ELSE [code |-> [i \in 1..length |-> base62Chars[rnd[i] + 1]], err |-> Nil]

IsValidShortCodeAcceptingEmpty(shortCode) ==
  \A i \in 1..Len(shortCode) :
    \E j \in 1..Len(base62Chars) : shortCode[i] = base62Chars[j]

IsValidShortCode(shortCode) ==
  IF ByteLen(shortCode) = 0
    THEN FALSE
    ELSE \A i \in 1..Len(shortCode) :
           \E j \in 1..Len(base62Chars) : shortCode[i] = base62Chars[j]

\* ------------------------------------------------------------------- state
VARIABLES
  store,     \* the short_urls collection: a set of records
  nextId,    \* the id the store assigns to the next record
  pc,        \* pc[p]: where request p stands in the code
  req,       \* req[p]: the request p serves
  loc,       \* loc[p]: the locals of the call (shortCode, loop counter, records read)
  http,      \* http[p]: the last HTTP exchange of p with the store
  result,    \* result[p]: what the service call returned
  hist,      \* hist[p]: what the call has done so far (calls made, record written)
  okReads,   \* okReads[id]: GetOriginalURL calls that returned the record id
  failedReads, \* failedReads[id]: GetOriginalURL calls that found the record id and failed
  reqs,      \* requests that have arrived so far
  draws,     \* codes the random source will still be asked for
  faults,    \* faulty HTTP exchanges so far
  call,      \* a direct call of the validator or the generator: input and result
  hung,      \* the record store has stopped answering
  cancelled  \* the requests whose caller has cancelled the request context

vars == <<store, nextId, pc, req, loc, http, result, hist, okReads, failedReads, reqs,
          draws, faults, call, hung, cancelled>>

NoRec == [id |-> 0, url |-> NoURL, short_code |-> <<>>, access_count |-> 0]

NoReq == [op |-> "none", url |-> NoURL, custom |-> NoCustom, code |-> <<>>]
NoLoc == [shortCode |-> <<>>, i |-> 0, rec |-> NoRec, cur |-> NoRec]
NoHttp == [method |-> "none", err |-> FALSE, status |-> 0, decodes |-> TRUE]
NoResult == [done |-> FALSE, err |-> Nil, rec |-> NoRec]
NoHist == [calls |-> 0, exists |-> 0, existsTrue |-> 0, gens |-> 0, creates |-> 0,
           free |-> <<>>, stage |-> "none", stored |-> NoRec]
NoCall == [fn |-> "none", arg |-> <<>>, done |-> FALSE, ret |-> Nil]

\* ------------------------------------------------------------ record store
\* The collection short_urls: url, short_code (unique), access_count.
\* decodes: the body can be read to its end and decoded; served: the status
\* with which the store has served the request (0: the store has not)
Response(status, items, record) ==
  [err |-> FALSE, status |-> status, items |-> items, record |-> record, decodes |-> TRUE,
   served |-> status]

PBList(shortCode) ==
  Response(StatusOK, {r \in store : r.short_code = shortCode}, NoRec)

PBCreateNoUniqueIndex(body) ==
  Response(StatusOK, {},
           [id |-> nextId, url |-> body.url, short_code |-> body.short_code,
            access_count |-> body.access_count])

PBCreate(body) ==
  IF \E r \in store : r.short_code = body.short_code
    THEN Response(StatusConflict, {}, NoRec)
    ELSE Response(StatusOK, {},
                  [id |-> nextId, url |-> body.url, short_code |-> body.short_code,
                   access_count |-> body.access_count])

PBHas(id) == \E r \in store : r.id = id
PBRecord(id) == CHOOSE r \in store : r.id = id

PBPatchCountResettingURL(id, count) ==
  IF PBHas(id)
    THEN Response(StatusOK, {}, [PBRecord(id) EXCEPT !.access_count = count, !.url = NoURL])
    ELSE Response(StatusNotFound, {}, NoRec)

PBPatchCount(id, count) ==
  IF PBHas(id)
    THEN Response(StatusOK, {}, [PBRecord(id) EXCEPT !.access_count = count])
    ELSE Response(StatusNotFound, {}, NoRec)

PBPatchURLResettingCount(id, url) ==
  IF PBHas(id)
    THEN Response(StatusOK, {}, [PBRecord(id) EXCEPT !.url = url, !.access_count = 0])
    ELSE Response(StatusNotFound, {}, NoRec)

PBPatchURL(id, url) ==
  IF PBHas(id)
    THEN Response(StatusOK, {}, [PBRecord(id) EXCEPT !.url = url])
    ELSE Response(StatusNotFound, {}, NoRec)

PBDelete(id) ==
  IF PBHas(id)
    THEN Response(StatusNoContent, {}, NoRec)
    ELSE Response(StatusNotFound, {}, NoRec)

\* the store has applied the write of the exchange resp, whether or not its
\* answer has reached the repository
Accepted(resp) == resp.served \in {StatusOK, StatusCreated}

\* the store after it has answered resp to a write on record id
StoreAfterWrite(id, resp) ==
  IF Accepted(resp)
    THEN {r \in store : r.id # id} \cup {resp.record}
    ELSE store

StoreAfterDeleteKeepingRecord(id, resp) == store

StoreAfterDelete(id, resp) ==
  IF resp.served \in {StatusOK, StatusNoContent}
    THEN {r \in store : r.id # id}
    ELSE store

\* What comes back from HTTPClient.Do: the store's answer, or a transport
\* error (the request has not reached the store: neterr; or the store has
\* served it and the response is lost: lost), or an error status of the
\* store, or the store's answer with a body that cannot be decoded.
Outcomes ==
  {"answer"} \cup (IF faults < MaxFaults
                     THEN {"neterr", "lost", "status500", "undecodable"} ELSE {})

\* What comes back to request p.  Every request to the store is made under
\* context.WithTimeout(ctx, RequestTimeout): when the store does not answer,
\* HTTPClient.Do returns the error of the deadline, whether the store has
\* left the request alone (deadline) or served it without answering (late);
\* when the caller has cancelled ctx before the call, the request is not
\* sent and Do returns the error of the cancellation.
OutcomesOfWithoutTimeout(p) ==
  IF p \in cancelled THEN {"canceled"}
  ELSE IF hung THEN {}
  ELSE Outcomes

OutcomesOfIgnoringCancel(p) ==
  IF hung THEN {"deadline", "late"} ELSE Outcomes

OutcomesOf(p) ==
  IF p \in cancelled THEN {"canceled"}
  ELSE IF hung THEN {"deadline", "late"}
  ELSE Outcomes

Exchange(o, answer) ==
  CASE o \in {"neterr", "deadline", "canceled"} ->
         [err |-> TRUE, status |-> 0, items |-> {}, record |-> NoRec, decodes |-> TRUE,
          served |-> 0]
    [] o \in {"lost", "late"} ->
         [err |-> TRUE, status |-> 0, items |-> {}, record |-> answer.record,
          decodes |-> TRUE, served |-> answer.status]
    [] o = "status500" -> Response(StatusInternalServerError, {}, NoRec)
    [] o = "undecodable" -> [answer EXCEPT !.decodes = FALSE]
    [] OTHER -> answer

FaultsAfter(o) ==
  IF o \in {"neterr", "lost", "status500", "undecodable"} THEN faults + 1 ELSE faults

Sent(method, resp) ==
  [method |-> method, err |-> resp.err, status |-> resp.status, decodes |-> resp.decodes]

\* -------------------------------------------------------------- repository
\* Each repository method is the exchange it makes with the store (in the
\* actions below) and what it returns for the response it got (here).

GetByShortCodeMiscounting(resp) ==
  IF resp.err
    THEN {[rec |-> NoRec,
           err |-> NewInternalError("repository.GetByShortCode",
                                    "failed to lookup record", TransportErr)]}
  ELSE IF resp.status # StatusOK
    THEN {[rec |-> NoRec,
           err |-> NewNotFoundError("repository.GetByShortCode", "short URL not found")]}
  ELSE IF ~resp.decodes
    THEN {[rec |-> NoRec,
           err |-> NewInternalError("repository.GetByShortCode",
                                    "failed to decode response", DecodeErr)]}
  ELSE IF resp.items = {}
    THEN {[rec |-> NoRec,
           err |-> NewNotFoundError("repository.GetByShortCode", "short URL not found")]}
  ELSE {[rec |-> [r EXCEPT !.access_count = @ + 1], err |-> Nil] : r \in resp.items}

GetByShortCodeEmptyAsInternal(resp) ==
  IF resp.err
    THEN {[rec |-> NoRec,
           err |-> NewInternalError("repository.GetByShortCode",
                                    "failed to lookup record", TransportErr)]}
  ELSE IF resp.status # StatusOK
    THEN {[rec |-> NoRec,
           err |-> NewNotFoundError("repository.GetByShortCode", "short URL not found")]}
  ELSE IF ~resp.decodes
    THEN {[rec |-> NoRec,
           err |-> NewInternalError("repository.GetByShortCode",
                                    "failed to decode response", DecodeErr)]}
  ELSE IF resp.items = {}
    THEN {[rec |-> NoRec,
           err |-> NewInternalError("repository.GetByShortCode",
                                    "failed to lookup record", Nil)]}
  ELSE {[rec |-> r, err |-> Nil] : r \in resp.items}

\* the results GetByShortCode may return for resp: Items[0] of the answer
GetByShortCode(resp) ==
  IF resp.err
    THEN {[rec |-> NoRec,
           err |-> NewInternalError("repository.GetByShortCode",
                                    "failed to lookup record", TransportErr)]}
  ELSE IF resp.status # StatusOK
    THEN {[rec |-> NoRec,
           err |-> NewNotFoundError("repository.GetByShortCode", "short URL not found")]}
  ELSE IF ~resp.decodes
    THEN {[rec |-> NoRec,
           err |-> NewInternalError("repository.GetByShortCode",
                                    "failed to decode response", DecodeErr)]}
  ELSE IF resp.items = {}
    THEN {[rec |-> NoRec,
           err |-> NewNotFoundError("repository.GetByShortCode", "short URL not found")]}
  ELSE {[rec |-> r, err |-> Nil] : r \in resp.items}

ExistsByShortCodeNeverFound(got) ==
  IF got.err # Nil /\ ~(IsServiceError(got.err) /\ got.err.code = ErrorCodeNotFound)
    THEN [exists |-> FALSE, err |-> got.err]
    ELSE [exists |-> FALSE, err |-> Nil]

\* got: what GetByShortCode returned
ExistsByShortCode(got) ==
  IF got.err # Nil
    THEN IF IsServiceError(got.err) /\ got.err.code = ErrorCodeNotFound
           THEN [exists |-> FALSE, err |-> Nil]
           ELSE [exists |-> FALSE, err |-> got.err]
    ELSE [exists |-> got.rec # NoRec, err |-> Nil]

pocketBaseCreateRequestWithoutURL(shortURL) ==
  [url |-> NoURL, short_code |-> shortURL.short_code, access_count |-> 0]

pocketBaseCreateRequest(shortURL) ==
  [url |-> shortURL.url, short_code |-> shortURL.short_code, access_count |-> 0]

CreateConflictAsInternal(resp) ==
  IF resp.err
    THEN NewInternalError("repository.Create", "failed to create record", TransportErr)
  ELSE IF resp.status # StatusOK /\ resp.status # StatusCreated
    THEN NewInternalError("repository.Create", "PocketBase error", StatusErr(resp.status))
  ELSE IF ~resp.decodes
    THEN NewInternalError("repository.Create", "failed to decode response", DecodeErr)
  ELSE Nil

\* what Create returns for the response to its POST
Create(resp) ==
  IF resp.err
    THEN NewInternalError("repository.Create", "failed to create record", TransportErr)
  ELSE IF resp.status # StatusOK /\ resp.status # StatusCreated
    THEN IF resp.status = StatusConflict
           THEN NewDuplicateError("repository.Create", "short code already exists")
           ELSE NewInternalError("repository.Create", "PocketBase error",
                                 StatusErr(resp.status))
  ELSE IF ~resp.decodes
    THEN NewInternalError("repository.Create", "failed to decode response", DecodeErr)
  ELSE Nil

\* what Update returns for the response to its PATCH
Update(resp) ==
  IF resp.err
    THEN NewInternalError("repository.Update", "failed to update record", TransportErr)
  ELSE IF resp.status # StatusOK
    THEN NewInternalError("repository.Update", "PocketBase error", StatusErr(resp.status))
  ELSE IF ~resp.decodes
    THEN NewInternalError("repository.Update", "failed to decode response", DecodeErr)
  ELSE Nil

\* what Delete returns for the response to its DELETE
Delete(resp) ==
  IF resp.err
    THEN NewInternalError("repository.Delete", "failed to delete record", TransportErr)
  ELSE IF resp.status # StatusOK /\ resp.status # StatusNoContent
    THEN NewInternalError("repository.Delete", "PocketBase error", StatusErr(resp.status))
  ELSE Nil

newCountNotIncremented(shortURL) == shortURL.access_count

\* the count IncrementAccessCount writes, from the record it has just read
newCount(shortURL) == shortURL.access_count + 1

\* what IncrementAccessCount returns for the response to its PATCH
IncrementAccessCount(resp) ==
  IF resp.err
    THEN NewInternalError("repository.IncrementAccessCount", "failed to update record",
                          TransportErr)
  ELSE IF resp.status # StatusOK
    THEN NewInternalError("repository.IncrementAccessCount", "PocketBase error",
                          StatusErr(resp.status))
  ELSE Nil

\* ----------------------------------------------------------------- service
Called(p, n) == [hist[p] EXCEPT !.calls = @ + n]

Return(p, err, rec) ==
  /\ pc' = [pc EXCEPT ![p] = "done"]
  /\ result' = [result EXCEPT ![p] = [done |-> TRUE, err |-> err, rec |-> rec]]

\* The processes are interchangeable: an arriving request is served by the
\* first one that is free.
Free(p) == pc[p] = "idle" /\ \A q \in Procs : q < p => pc[q] # "idle"

Arrives(p) == Free(p) /\ reqs' = reqs + 1

Failed(h, stage) == [h EXCEPT !.stage = IF @ = "none" THEN stage ELSE @]

\* CreateShortURL, lines 40 and 53: a custom code is checked, and a code is
\* generated when the request gives none
CodeSourceIgnoringCustom(custom) == "g_iter"

CodeSource(custom) == IF custom.set THEN "c_exists" ELSE "g_iter"

StartCreateIgnoringCodeError(p, url, custom) ==
  /\ Arrives(p)
  /\ req' = [req EXCEPT ![p] = [op |-> "create", url |-> url, custom |-> custom,
                                code |-> <<>>]]
  /\ IF ValidateURL(url) # Nil
       THEN /\ Return(p, ValidateURL(url), NoRec)
            /\ hist' = [hist EXCEPT ![p] = Failed(NoHist, "url")]
       ELSE /\ pc' = [pc EXCEPT ![p] = CodeSource(custom)]
            /\ hist' = [hist EXCEPT ![p] =
                          IF custom.set /\ ValidateShortCode(custom.val) # Nil
                            THEN Failed(NoHist, "code") ELSE NoHist]
            /\ UNCHANGED result
  /\ UNCHANGED <<store, nextId, loc, http, okReads, failedReads, faults, draws, call, hung, cancelled>>

\* CreateShortURL, lines 35-43: the request arrives and is validated
StartCreate(p, url, custom) ==
  /\ Arrives(p)
  /\ req' = [req EXCEPT ![p] = [op |-> "create", url |-> url, custom |-> custom,
                                code |-> <<>>]]
  /\ IF ValidateURL(url) # Nil
       THEN /\ Return(p, ValidateURL(url), NoRec)
            /\ hist' = [hist EXCEPT ![p] = Failed(NoHist, "url")]
     ELSE IF custom.set /\ ValidateShortCode(custom.val) # Nil
       THEN /\ Return(p, ValidateShortCode(custom.val), NoRec)
            /\ hist' = [hist EXCEPT ![p] = Failed(NoHist, "code")]
     ELSE /\ pc' = [pc EXCEPT ![p] = CodeSource(custom)]
          /\ hist' = [hist EXCEPT ![p] = NoHist]
          /\ UNCHANGED result
  /\ UNCHANGED <<store, nextId, loc, http, okReads, failedReads, faults, draws, call, hung, cancelled>>

\* CreateShortURL, lines 45-52: the existence check of a custom code
CheckCustomCode(p) ==
  /\ pc[p] = "c_exists"
  /\ \E o \in OutcomesOf(p) :
       LET resp == Exchange(o, PBList(req[p].custom.val)) IN
       \E got \in GetByShortCode(resp) :
         LET ex == ExistsByShortCode(got)
             h == [Called(p, 1) EXCEPT !.exists = @ + 1,
                                       !.existsTrue = @ + (IF ex.exists THEN 1 ELSE 0),
                                       !.free = IF ex.err = Nil /\ ~ex.exists
                                                  THEN req[p].custom.val ELSE @]
         IN
         /\ http' = [http EXCEPT ![p] = Sent("GET", resp)]
         /\ faults' = FaultsAfter(o)
         /\ IF ex.err # Nil
              THEN /\ Return(p, NewInternalError("service.CreateShortURL",
                                   "failed to check code existence", ex.err), NoRec)
                   /\ hist' = [hist EXCEPT ![p] = Failed(h, "exists")]
                   /\ UNCHANGED loc
            ELSE IF ex.exists
              THEN /\ Return(p, NewDuplicateError("service.CreateShortURL",
                                   "short code already exists"), NoRec)
                   /\ hist' = [hist EXCEPT ![p] = Failed(h, "duplicate")]
                   /\ UNCHANGED loc
            ELSE /\ pc' = [pc EXCEPT ![p] = "c_create"]
                 /\ loc' = [loc EXCEPT ![p].shortCode = req[p].custom.val]
                 /\ hist' = [hist EXCEPT ![p] = h]
                 /\ UNCHANGED result
  /\ UNCHANGED <<store, nextId, req, okReads, failedReads, reqs, draws, call, hung, cancelled>>

\* generateUniqueShortCode, lines 140-153: one turn of the loop, and the
\* return after the loop when the turn was the last
GenerateAndCheck(p) ==
  /\ pc[p] = "g_iter"
  /\ loc[p].i < MaxAttempts
  /\ draws > 0
  /\ draws' = draws - 1
  /\ \E rnd \in RandSources :
       LET gen == GenerateShortCode(CodeLength, rnd)
           hg == [hist[p] EXCEPT !.gens = @ + 1]
       IN
       IF gen.err # Nil
         THEN /\ Return(p, NewInternalError("service.CreateShortURL",
                              "failed to generate short code",
                              NewInternalError("service.generateUniqueShortCode",
                                "failed to generate short code", gen.err)), NoRec)
              /\ hist' = [hist EXCEPT ![p] = Failed(hg, "gen")]
              /\ UNCHANGED <<loc, http, faults>>
         ELSE
           \E o \in OutcomesOf(p) :
             LET resp == Exchange(o, PBList(gen.code)) IN
             \E got \in GetByShortCode(resp) :
               LET ex == ExistsByShortCode(got)
                   h == [hg EXCEPT !.calls = @ + 1, !.exists = @ + 1,
                                   !.existsTrue = @ + (IF ex.exists THEN 1 ELSE 0),
                                   !.free = IF ex.err = Nil /\ ~ex.exists
                                              THEN gen.code ELSE @]
               IN
               /\ http' = [http EXCEPT ![p] = Sent("GET", resp)]
               /\ faults' = FaultsAfter(o)
               /\ IF ex.err # Nil
                    THEN /\ Return(p, NewInternalError("service.CreateShortURL",
                                         "failed to generate short code", ex.err), NoRec)
                         /\ hist' = [hist EXCEPT ![p] = Failed(h, "exists")]
                         /\ UNCHANGED loc
                  ELSE IF ~ex.exists
                    THEN /\ pc' = [pc EXCEPT ![p] = "c_create"]
                         /\ loc' = [loc EXCEPT ![p].shortCode = gen.code]
                         /\ hist' = [hist EXCEPT ![p] = h]
                         /\ UNCHANGED result
                  ELSE IF loc[p].i + 1 < MaxAttempts
                    THEN /\ loc' = [loc EXCEPT ![p].i = @ + 1]
                         /\ hist' = [hist EXCEPT ![p] = h]
                         /\ UNCHANGED <<pc, result>>
                  ELSE /\ loc' = [loc EXCEPT ![p].i = @ + 1]
                       /\ Return(p, NewInternalError("service.CreateShortURL",
                                       "failed to generate short code",
                                       NewInternalError("service.generateUniqueShortCode",
                                         "failed to generate unique code after 10 attempts",
                                         Nil)), NoRec)
                       /\ hist' = [hist EXCEPT ![p] = Failed(h, "gen")]
  /\ UNCHANGED <<store, nextId, req, okReads, failedReads, reqs, call, hung, cancelled>>

CreateRecordRetrying(p) ==
  /\ pc[p] = "c_create"
  /\ \E o \in OutcomesOf(p) :
       LET shortURL == [id |-> 0, url |-> req[p].url, short_code |-> loc[p].shortCode,
                        access_count |-> 0]
           resp == Exchange(o, PBCreate(pocketBaseCreateRequest(shortURL)))
           err == Create(resp)
           h == [Called(p, 1) EXCEPT !.creates = @ + 1,
                                     !.stored = IF Accepted(resp) THEN resp.record ELSE @]
       IN
       /\ http' = [http EXCEPT ![p] = Sent("POST", resp)]
       /\ faults' = FaultsAfter(o)
       /\ store' = StoreAfterWrite(nextId, resp)
       /\ nextId' = IF Accepted(resp) THEN nextId + 1 ELSE nextId
       /\ okReads' = IF Accepted(resp) THEN okReads @@ (resp.record.id :> 0) ELSE okReads
       /\ failedReads' = IF Accepted(resp) THEN failedReads @@ (resp.record.id :> 0)
                                           ELSE failedReads
       /\ hist' = [hist EXCEPT ![p] = h]
       /\ IF err # Nil
            THEN /\ pc' = [pc EXCEPT ![p] = "g_iter"]
                 /\ UNCHANGED result
            ELSE Return(p, Nil, [shortURL EXCEPT !.id = resp.record.id])
  /\ UNCHANGED <<req, loc, reqs, draws, call, hung, cancelled>>

\* CreateShortURL, lines 61-77: the record is built and handed to repo.Create.
\* The store holds the record as soon as it has accepted the POST, whatever
\* repo.Create then makes of the response.
CreateRecord(p) ==
  /\ pc[p] = "c_create"
  /\ \E o \in OutcomesOf(p) :
       LET shortURL == [id |-> 0, url |-> req[p].url, short_code |-> loc[p].shortCode,
                        access_count |-> 0]
           resp == Exchange(o, PBCreate(pocketBaseCreateRequest(shortURL)))
           err == Create(resp)
           h == [Called(p, 1) EXCEPT !.creates = @ + 1,
                                     !.stored = IF Accepted(resp) THEN resp.record ELSE @]
       IN
       /\ http' = [http EXCEPT ![p] = Sent("POST", resp)]
       /\ faults' = FaultsAfter(o)
       /\ store' = StoreAfterWrite(nextId, resp)
       /\ nextId' = IF Accepted(resp) THEN nextId + 1 ELSE nextId
       /\ okReads' = IF Accepted(resp) THEN okReads @@ (resp.record.id :> 0) ELSE okReads
       /\ failedReads' = IF Accepted(resp) THEN failedReads @@ (resp.record.id :> 0)
                                           ELSE failedReads
       /\ IF err # Nil
            THEN /\ Return(p, err, NoRec)
                 /\ hist' = [hist EXCEPT ![p] = Failed(h, "create")]
            ELSE /\ hist' = [hist EXCEPT ![p] = h]
                 /\ Return(p, Nil, [shortURL EXCEPT !.id = resp.record.id])
  /\ UNCHANGED <<req, loc, reqs, draws, call, hung, cancelled>>

\* The first exchange of a call that starts with repo.GetByShortCode: the
\* results it may return, with the exchange recorded.
Lookup(p, o, got) ==
  LET resp == Exchange(o, PBList(req[p].code)) IN
  /\ got \in GetByShortCode(resp)
  /\ http' = [http EXCEPT ![p] = Sent("GET", resp)]
  /\ faults' = FaultsAfter(o)
  /\ hist' = [hist EXCEPT ![p] = Called(p, 1)]

StartLookup(p, op, shortCode, url, at) ==
  /\ Arrives(p)
  /\ req' = [req EXCEPT ![p] = [op |-> op, url |-> url, custom |-> NoCustom,
                                code |-> shortCode]]
  /\ pc' = [pc EXCEPT ![p] = at]
  /\ hist' = [hist EXCEPT ![p] = NoHist]
  /\ UNCHANGED <<store, nextId, loc, http, result, okReads, failedReads, faults, draws, call, hung,
                 cancelled>>

\* GetOriginalURL, line 80: the request arrives
StartGet(p, shortCode) == StartLookup(p, "get", shortCode, NoURL, "r_get")

\* GetOriginalURL, lines 81-84: repo.GetByShortCode
GetLookup(p) ==
  /\ pc[p] = "r_get"
  /\ \E o \in OutcomesOf(p) :
       \E got \in GetByShortCode(Exchange(o, PBList(req[p].code))) :
         /\ Lookup(p, o, got)
         /\ IF got.err # Nil
              THEN /\ Return(p, got.err, NoRec)
                   /\ UNCHANGED loc
              ELSE /\ pc' = [pc EXCEPT ![p] = "r_inc_get"]
                   /\ loc' = [loc EXCEPT ![p].rec = got.rec]
                   /\ UNCHANGED result
  /\ UNCHANGED <<store, nextId, req, okReads, failedReads, reqs, draws, call, hung, cancelled>>

IncrementLookupPassingError(p) ==
  /\ pc[p] = "r_inc_get"
  /\ \E o \in OutcomesOf(p) :
       \E got \in GetByShortCode(Exchange(o, PBList(req[p].code))) :
         /\ Lookup(p, o, got)
         /\ IF got.err # Nil
              THEN /\ Return(p, got.err, NoRec)
                   /\ failedReads' = [failedReads EXCEPT ![loc[p].rec.id] = @ + 1]
                   /\ UNCHANGED loc
              ELSE /\ pc' = [pc EXCEPT ![p] = "r_inc_patch"]
                   /\ loc' = [loc EXCEPT ![p].cur = got.rec]
                   /\ UNCHANGED <<result, failedReads>>
  /\ UNCHANGED <<store, nextId, req, okReads, reqs, draws, call, hung, cancelled>>

\* IncrementAccessCount, lines 280-286: it reads the record again
IncrementLookup(p) ==
  /\ pc[p] = "r_inc_get"
  /\ \E o \in OutcomesOf(p) :
       \E got \in GetByShortCode(Exchange(o, PBList(req[p].code))) :
         /\ Lookup(p, o, got)
         /\ IF got.err # Nil
              THEN /\ Return(p, NewInternalError("service.GetOriginalURL",
                                   "failed to increment access count", got.err), NoRec)
                   /\ failedReads' = [failedReads EXCEPT ![loc[p].rec.id] = @ + 1]
                   /\ UNCHANGED loc
              ELSE /\ pc' = [pc EXCEPT ![p] = "r_inc_patch"]
                   /\ loc' = [loc EXCEPT ![p].cur = got.rec]
                   /\ UNCHANGED <<result, failedReads>>
  /\ UNCHANGED <<store, nextId, req, okReads, reqs, draws, call, hung, cancelled>>

\* GetOriginalURL, lines 90-96: the response carries the id, the URL and the
\* code of the record of the first lookup; its AccessCount is not assigned
GetURLResponse(shortURL) == [shortURL EXCEPT !.access_count = 0]

\* IncrementAccessCount, lines 288-320, and GetOriginalURL, lines 86-96:
\* the PATCH of access_count, and the response of the service.  The body of
\* the answer is not read, so that it may not decode makes no outcome.
IncrementPatch(p) ==
  /\ pc[p] = "r_inc_patch"
  /\ \E o \in OutcomesOf(p) \ {"undecodable"} :
       LET id == loc[p].cur.id
           resp == Exchange(o, PBPatchCount(id, newCount(loc[p].cur)))
           err == IncrementAccessCount(resp)
       IN
       /\ http' = [http EXCEPT ![p] = Sent("PATCH", resp)]
       /\ faults' = FaultsAfter(o)
       /\ hist' = [hist EXCEPT ![p] = Called(p, 1)]
       /\ store' = StoreAfterWrite(id, resp)
       /\ IF err # Nil
            THEN /\ Return(p, NewInternalError("service.GetOriginalURL",
                                 "failed to increment access count", err), NoRec)
                 /\ failedReads' = [failedReads EXCEPT ![loc[p].rec.id] = @ + 1]
                 /\ UNCHANGED okReads
            ELSE /\ Return(p, Nil, GetURLResponse(loc[p].rec))
                 /\ okReads' = [okReads EXCEPT ![loc[p].rec.id] = @ + 1]
                 /\ UNCHANGED failedReads
  /\ UNCHANGED <<nextId, req, loc, reqs, draws, call, hung, cancelled>>

StartUpdateWithoutValidation(p, shortCode, url) ==
  StartLookup(p, "update", shortCode, url, "u_get")

\* UpdateShortURL, lines 100-102: the request arrives and is validated
StartUpdate(p, shortCode, url) ==
  IF ValidateURL(url) # Nil
    THEN /\ Arrives(p)
         /\ req' = [req EXCEPT ![p] = [op |-> "update", url |-> url,
                                       custom |-> NoCustom, code |-> shortCode]]
         /\ hist' = [hist EXCEPT ![p] = Failed(NoHist, "url")]
         /\ Return(p, ValidateURL(url), NoRec)
         /\ UNCHANGED <<store, nextId, loc, http, okReads, failedReads, faults, draws, call, hung, cancelled>>
    ELSE StartLookup(p, "update", shortCode, url, "u_get")

\* repository Update, lines 186-192: it reads the record
UpdateLookup(p) ==
  /\ pc[p] = "u_get"
  /\ \E o \in OutcomesOf(p) :
       \E got \in GetByShortCode(Exchange(o, PBList(req[p].code))) :
         /\ Lookup(p, o, got)
         /\ IF got.err # Nil
              THEN /\ Return(p, got.err, NoRec)
                   /\ UNCHANGED loc
              ELSE /\ pc' = [pc EXCEPT ![p] = "u_patch"]
                   /\ loc' = [loc EXCEPT ![p].cur = got.rec]
                   /\ UNCHANGED result
  /\ UNCHANGED <<store, nextId, req, okReads, failedReads, reqs, draws, call, hung, cancelled>>

\* repository Update, lines 194-239: the PATCH of url
UpdatePatch(p) ==
  /\ pc[p] = "u_patch"
  /\ \E o \in OutcomesOf(p) :
       LET id == loc[p].cur.id
           resp == Exchange(o, PBPatchURL(id, req[p].url))
           err == Update(resp)
       IN
       /\ http' = [http EXCEPT ![p] = Sent("PATCH", resp)]
       /\ faults' = FaultsAfter(o)
       /\ hist' = [hist EXCEPT ![p] = Called(p, 1)]
       /\ store' = StoreAfterWrite(id, resp)
       /\ Return(p, err, IF err # Nil THEN NoRec ELSE resp.record)
  /\ UNCHANGED <<nextId, req, loc, okReads, failedReads, reqs, draws, call, hung, cancelled>>

\* DeleteShortURL, line 119: the request arrives
StartDelete(p, shortCode) == StartLookup(p, "delete", shortCode, NoURL, "d_get")

\* repository Delete, lines 245-251: it reads the record
DeleteLookup(p) ==
  /\ pc[p] = "d_get"
  /\ \E o \in OutcomesOf(p) :
       \E got \in GetByShortCode(Exchange(o, PBList(req[p].code))) :
         /\ Lookup(p, o, got)
         /\ IF got.err # Nil
              THEN /\ Return(p, got.err, NoRec)
                   /\ UNCHANGED loc
              ELSE /\ pc' = [pc EXCEPT ![p] = "d_delete"]
                   /\ loc' = [loc EXCEPT ![p].cur = got.rec]
                   /\ UNCHANGED result
  /\ UNCHANGED <<store, nextId, req, okReads, failedReads, reqs, draws, call, hung, cancelled>>

\* repository Delete, lines 253-274: the DELETE of the record.  The body of
\* the answer is not read, so that it may not decode makes no outcome.
DeleteRecord(p) ==
  /\ pc[p] = "d_delete"
  /\ \E o \in OutcomesOf(p) \ {"undecodable"} :
       LET id == loc[p].cur.id
           resp == Exchange(o, PBDelete(id))
       IN
       /\ http' = [http EXCEPT ![p] = Sent("DELETE", resp)]
       /\ faults' = FaultsAfter(o)
       /\ hist' = [hist EXCEPT ![p] = Called(p, 1)]
       /\ store' = StoreAfterDelete(id, resp)
       /\ Return(p, Delete(resp), NoRec)
  /\ UNCHANGED <<nextId, req, loc, okReads, failedReads, reqs, draws, call, hung, cancelled>>

\* GetStatistics, line 123: the request arrives
StartStats(p, shortCode) == StartLookup(p, "stats", shortCode, NoURL, "s_get")

\* GetStatistics, lines 124-136
StatsLookup(p) ==
  /\ pc[p] = "s_get"
  /\ \E o \in OutcomesOf(p) :
       \E got \in GetByShortCode(Exchange(o, PBList(req[p].code))) :
         /\ Lookup(p, o, got)
         /\ Return(p, got.err, got.rec)
  /\ UNCHANGED <<store, nextId, req, loc, okReads, failedReads, reqs, draws, call, hung, cancelled>>

\* the handler has written the response: the request is over
Finish(p) ==
  /\ pc[p] = "done"
  /\ pc' = [pc EXCEPT ![p] = "idle"]
  /\ req' = [req EXCEPT ![p] = NoReq]
  /\ loc' = [loc EXCEPT ![p] = NoLoc]
  /\ http' = [http EXCEPT ![p] = NoHttp]
  /\ result' = [result EXCEPT ![p] = NoResult]
  /\ hist' = [hist EXCEPT ![p] = NoHist]
  /\ cancelled' = cancelled \ {p}
  /\ UNCHANGED <<store, nextId, okReads, failedReads, reqs, faults, draws, call, hung>>

\* ----------------------------------------------------------------- handler
\* ServiceError.Error: "op: message", and ": cause" when there is one.  The
\* text is given as the sequence of the parts the format joins.
RECURSIVE Error(_)
Error(e) ==
  IF IsServiceError(e)
    THEN IF e.err # Nil THEN <<e.op, e.message>> \o Error(e.err)
                        ELSE <<e.op, e.message>>
    ELSE <<e.raw>>

handleServiceErrorAlwaysInternal(err) ==
  [status |-> StatusInternalServerError, Error |-> "Internal server error",
   Message |-> <<"An unexpected error occurred">>, Code |-> StatusInternalServerError]

\* the response handleServiceError writes for the error of a service call
handleServiceError(err) ==
  IF IsServiceError(err)
    THEN LET statusCode ==
               CASE err.code = ErrorCodeNotFound -> StatusNotFound
                 [] err.code = ErrorCodeDuplicate -> StatusConflict
                 [] err.code = ErrorCodeValidation -> StatusBadRequest
                 [] err.code = ErrorCodeBadRequest -> StatusBadRequest
                 [] OTHER -> StatusInternalServerError
         IN [status |-> statusCode, Error |-> err.message, Message |-> Error(err),
             Code |-> statusCode]
    ELSE [status |-> StatusInternalServerError, Error |-> "Internal server error",
          Message |-> <<"An unexpected error occurred">>,
          Code |-> StatusInternalServerError]

\* ------------------------------------------------------------ specification
\* The store is empty, or already holds a record for each code the random
\* source of the model can yield.
Preloaded ==
  { [id |-> 1, url |-> UrlExampleA, short_code |-> CodeZeros, access_count |-> 0],
    [id |-> 2, url |-> UrlExampleA, short_code |-> CodeAbc123, access_count |-> 0] }

Started(n) ==
  /\ draws = n
  /\ store \in {{}, {r \in Preloaded : r.id = 1}, Preloaded}
  /\ nextId = Cardinality(store) + 1
  /\ okReads = [id \in {r.id : r \in store} |-> 0]
  /\ failedReads = [id \in {r.id : r \in store} |-> 0]
  /\ pc = [p \in Procs |-> "idle"]
  /\ req = [p \in Procs |-> NoReq]
  /\ loc = [p \in Procs |-> NoLoc]
  /\ http = [p \in Procs |-> NoHttp]
  /\ result = [p \in Procs |-> NoResult]
  /\ hist = [p \in Procs |-> NoHist]
  /\ reqs = 0
  /\ faults = 0
  /\ hung = FALSE
  /\ cancelled = {}
  /\ call = NoCall

\* the random source is asked for at most MaxDraws codes
Init == Started(MaxDraws)

\* the random source is asked for as many codes as one request can ask for,
\* and MaxDraws more
InitSeq == Started(MaxAttempts + MaxDraws)

CreateArrives == \E p \in Procs, u \in CreateURLs, c \in CustomCodes : StartCreate(p, u, c)
GetArrives == \E p \in Procs, c \in LookupCodes : StartGet(p, c)
UpdateArrives == \E p \in Procs, c \in LookupCodes, u \in UpdateURLs : StartUpdate(p, c, u)
DeleteArrives == \E p \in Procs, c \in LookupCodes : StartDelete(p, c)
StatsArrives == \E p \in Procs, c \in LookupCodes : StartStats(p, c)

Arrival == CreateArrives \/ GetArrives \/ UpdateArrives \/ DeleteArrives \/ StatsArrives

\* the next step of request p
Steps(p) ==
  \/ CheckCustomCode(p)
  \/ GenerateAndCheck(p)
  \/ CreateRecord(p)
  \/ GetLookup(p)
  \/ IncrementLookup(p)
  \/ IncrementPatch(p)
  \/ UpdateLookup(p)
  \/ UpdatePatch(p)
  \/ DeleteLookup(p)
  \/ DeleteRecord(p)
  \/ StatsLookup(p)

Step == \E p \in Procs : Steps(p)

\* ------------------------------------------------------------- direct calls
\* The validator and the generator called on their own: the call is drawn in
\* the initial state and one step applies the function.
Pending(fn, arg) == [fn |-> fn, arg |-> arg, done |-> FALSE, ret |-> Nil]

InitPure ==
  /\ draws = 0
  /\ store = {}
  /\ nextId = 1
  /\ okReads = << >>
  /\ failedReads = << >>
  /\ pc = [p \in Procs |-> "idle"]
  /\ req = [p \in Procs |-> NoReq]
  /\ loc = [p \in Procs |-> NoLoc]
  /\ http = [p \in Procs |-> NoHttp]
  /\ result = [p \in Procs |-> NoResult]
  /\ hist = [p \in Procs |-> NoHist]
  /\ reqs = 0
  /\ faults = 0
  /\ hung = FALSE
  /\ cancelled = {}
  /\ call \in {Pending("ValidateURL", u) : u \in RawURLs}
         \cup {Pending("ValidateShortCode", c) : c \in RawCodes}
         \cup {Pending("GenerateShortCode", g) : g \in GenerateInputs}
         \cup {Pending("IsValidShortCode", c) : c \in CheckedCodes}

Applies(fn, ret) ==
  /\ call.fn = fn
  /\ ~call.done
  /\ call' = [call EXCEPT !.done = TRUE, !.ret = ret]
  /\ UNCHANGED <<store, nextId, pc, req, loc, http, result, hist, okReads, failedReads, reqs, draws,
                 faults, hung, cancelled>>

CallValidateURL == Applies("ValidateURL", ValidateURL(call.arg))

CallValidateShortCode == Applies("ValidateShortCode", ValidateShortCode(call.arg))

CallGenerateShortCode ==
  Applies("GenerateShortCode", GenerateShortCode(call.arg.length, call.arg.rnd))

CallIsValidShortCode == Applies("IsValidShortCode", IsValidShortCode(call.arg))

NextPure ==
  \/ CallValidateURL
  \/ CallValidateShortCode
  \/ CallGenerateShortCode
  \/ CallIsValidShortCode

SpecPure == InitPure /\ [][NextPure]_vars

\* Concurrent requests: each process serves one request, and the requests
\* interleave at every exchange with the store.
Next == Arrival \/ Step

Spec == Init /\ [][Next]_vars

\* Requests served one after the other: a request arrives only when no other
\* is being served.
AllIdle == \A p \in Procs : pc[p] = "idle"

Responded == \E p \in Procs : Finish(p)

NextSeq == (AllIdle /\ reqs < MaxReqs /\ Arrival) \/ Step \/ Responded

SpecSeq == InitSeq /\ [][NextSeq]_vars

\* ------------------------------------------------------ a store that stops
\* The record store stops answering, at any time and for good.
Hangs ==
  /\ ~hung
  /\ hung' = TRUE
  /\ UNCHANGED <<store, nextId, pc, req, loc, http, result, hist, okReads, failedReads, reqs, draws,
                 faults, call, cancelled>>

\* the random source is asked for as many codes as the requests can ask for
InitLive == Started(MaxLiveReqs * MaxAttempts)

NextLive == (AllIdle /\ reqs < MaxLiveReqs /\ Arrival) \/ Step \/ Responded \/ Hangs

\* A request that can take its next step takes it: the call to the store
\* returns, with the answer, an error or the error of the deadline.
SpecLive == InitLive /\ [][NextLive]_vars /\ \A p \in Procs : WF_vars(Steps(p))

\* ------------------------------------------------------------ cancellation
\* The caller of request p goes away: gin cancels c.Request.Context().
Cancels(p) ==
  /\ pc[p] \notin {"idle", "done"}
  /\ p \notin cancelled
  /\ cancelled' = cancelled \cup {p}
  /\ UNCHANGED <<store, nextId, pc, req, loc, http, result, hist, okReads, failedReads, reqs, draws,
                 faults, call, hung>>

Cancelled == \E p \in Procs : Cancels(p)

\* requests served one after the other, each of which may be cancelled
NextCancel == (AllIdle /\ reqs < MaxReqs /\ Arrival) \/ Step \/ Responded \/ Cancelled

SpecCancel == InitSeq /\ [][NextCancel]_vars

\* ------------------------------------------------------------------ claims
IsErr(e, code) == e # Nil /\ IsServiceError(e) /\ e.code = code

Succeeded(p) == pc[p] = "done" /\ result[p].err = Nil

Creating(p) == req[p].op = "create"

\* the last exchange of p: the store answered 200 with a body that decodes
Answered(h) == ~h.err /\ h.status = StatusOK /\ h.decodes

\* C1: no two stored records have the same short code, whatever requests
\* have been served and however they interleaved.
C1_ShortCodeUnique ==
  \A r1 \in store : \A r2 \in store : r1.short_code = r2.short_code => r1 = r2

\* a create was turned down by the store because the code was taken
C1_Witness ==
  \E p \in Procs : /\ http[p].method = "POST"
                   /\ http[p].status = StatusConflict
                   /\ hist[p].free = loc[p].shortCode

\* C2: a CreateShortURL that found its code free and whose write the store
\* turns down as a conflict (another request wrote the code in between)
\* fails with a DuplicateError, writes nothing, and the store holds exactly
\* one record with the code.
C2_RaceLostIsDuplicate ==
  [][\A p \in Procs :
       (/\ pc[p] = "c_create"
        /\ pc'[p] = "done"
        /\ hist[p].free = loc[p].shortCode
        /\ ~http'[p].err
        /\ http'[p].status = StatusConflict)
       => /\ IsErr(result'[p].err, ErrorCodeDuplicate)
          /\ store' = store
          /\ Cardinality({r \in store' : r.short_code = loc[p].shortCode}) = 1]_vars

\* two creates of one code both passed the existence check; one succeeded
\* and the other was turned down by the store
C2_Witness ==
  \E p \in Procs : \E q \in Procs :
    /\ p # q
    /\ Creating(p) /\ Creating(q)
    /\ loc[p].shortCode = loc[q].shortCode
    /\ hist[p].free = loc[p].shortCode
    /\ hist[q].free = loc[q].shortCode
    /\ Succeeded(p)
    /\ pc[q] = "done"
    /\ IsErr(result[q].err, ErrorCodeDuplicate)
    /\ result[q].err.op = "repository.Create"

\* C3: when every GetOriginalURL call on a record has returned success, the
\* access count of the record is the number of those calls: no increment is
\* lost, also when the calls overlap.
C3_NoIncrementLost ==
  \A r \in store : failedReads[r.id] = 0 => r.access_count = okReads[r.id]

\* C4: a CreateShortURL without a custom code makes at most MaxRetries (5)
\* generate-and-check cycles, and gives up after exactly that many.
C4_AtMostFiveCycles ==
  \A p \in Procs :
    /\ hist[p].gens <= MaxRetries
    /\ hist[p].exists <= MaxRetries
    /\ (pc[p] = "done" /\ Creating(p) /\ ~req[p].custom.set /\ hist[p].stage = "gen"
        /\ hist[p].gens = hist[p].existsTrue)
       => hist[p].gens = MaxRetries

\* C5: an existence check whose lookup was not answered with found or not
\* found (a transport error, an error status of the store, or a body that
\* cannot be decoded) ends the
\* CreateShortURL at once with an InternalError that carries the cause.
C5_FailedCheckIsInternalError ==
  [][\A p \in Procs :
       (/\ pc[p] \in {"c_exists", "g_iter"}
        /\ hist'[p].exists = hist[p].exists + 1
        /\ ~Answered(http'[p]))
       => /\ pc'[p] = "done"
          /\ IsErr(result'[p].err, ErrorCodeInternal)
          /\ result'[p].err.err # Nil]_vars

\* C6: when the existence check of a custom code finds the record the store
\* holds for it, CreateShortURL fails with a DuplicateError, has not called
\* and will not call the persistence create, and the store is unchanged.
C6_ExistingCustomIsDuplicate ==
  [][\A p \in Procs :
       (/\ pc[p] = "c_exists"
        /\ hist'[p].exists = hist[p].exists + 1
        /\ Answered(http'[p])
        /\ \E r \in store : r.short_code = req[p].custom.val)
       => /\ pc'[p] = "done"
          /\ IsErr(result'[p].err, ErrorCodeDuplicate)
          /\ hist'[p].creates = 0
          /\ hist'[p].calls = 1
          /\ store' = store]_vars

C6_Witness ==
  \E p \in Procs :
    /\ pc[p] = "done"
    /\ Creating(p) /\ req[p].custom.set
    /\ IsErr(result[p].err, ErrorCodeDuplicate)
    /\ result[p].err.op = "service.CreateShortURL"
    /\ hist[p].creates = 0
    /\ \E r \in store : r.short_code = req[p].custom.val

\* C7: a CreateShortURL with a valid custom code that the existence check
\* reports free writes that code unchanged, after exactly one existence check
\* and no code generation.
C7_CustomCodeUsedUnchanged ==
  \A p \in Procs :
    (Creating(p) /\ req[p].custom.set /\ (pc[p] = "c_create" \/ Succeeded(p)))
    => /\ loc[p].shortCode = req[p].custom.val
       /\ hist[p].exists = 1
       /\ hist[p].gens = 0
       /\ Succeeded(p) => /\ hist[p].stored.short_code = req[p].custom.val
                          /\ result[p].rec.short_code = req[p].custom.val
                          /\ hist[p].calls = 2

C7_Witness ==
  \E p \in Procs :
    /\ Creating(p) /\ req[p].custom.set /\ Succeeded(p)
    /\ hist[p].stored.short_code = CodeAbc123
    /\ hist[p].stored \in store

\* C8: a CreateShortURL without a custom code writes the code of the first
\* cycle whose existence check returned false: every earlier cycle found its
\* code taken.  The record written has a code of 6 alphanumeric characters
\* and access count 0.
C8_FirstFreeGeneratedCode ==
  \A p \in Procs :
    (Creating(p) /\ ~req[p].custom.set /\ (pc[p] = "c_create" \/ Succeeded(p)))
    => /\ loc[p].shortCode = hist[p].free
       /\ hist[p].gens = hist[p].existsTrue + 1
       /\ hist[p].exists = hist[p].gens
       /\ hist[p].existsTrue = loc[p].i
       /\ Len(loc[p].shortCode) = 6
       /\ \A k \in 1..Len(loc[p].shortCode) : isAlphaNumeric(loc[p].shortCode[k])
       /\ Succeeded(p) => /\ hist[p].stored.short_code = loc[p].shortCode
                          /\ hist[p].stored.access_count = 0
                          /\ hist[p].creates = 1

\* a generated code was found taken and skipped, and the next one was written
C8_Witness ==
  \E p \in Procs :
    /\ Creating(p) /\ ~req[p].custom.set /\ Succeeded(p)
    /\ hist[p].existsTrue >= 1
    /\ hist[p].stored.short_code = loc[p].shortCode
    /\ hist[p].stored \in store

\* C9: when requests are served one after the other, and every
\* GetOriginalURL call on a record since it was created has succeeded, the
\* stored access count of the record is the number of those calls, and
\* GetStatistics reports that number.
C9_SequentialReadsCount ==
  /\ \A r \in store : failedReads[r.id] = 0 => r.access_count = okReads[r.id]
  /\ \A p \in Procs :
       (req[p].op = "stats" /\ Succeeded(p) /\ failedReads[result[p].rec.id] = 0)
       => result[p].rec.access_count = okReads[result[p].rec.id]

\* statistics report 2 after two reads of a record
C9_Witness ==
  \E p \in Procs :
    /\ req[p].op = "stats" /\ Succeeded(p)
    /\ result[p].rec.access_count = 2
    /\ okReads[result[p].rec.id] = 2
    /\ failedReads[result[p].rec.id] = 0

\* C10: when URL validation, custom code validation, the existence check or
\* code generation fails, CreateShortURL has returned an error with that
\* step, has never called the persistence create and has written no record;
\* after a validation failure it has made no persistence call at all.
C10_FailureShortCircuits ==
  \A p \in Procs :
    (Creating(p) /\ hist[p].stage \in {"url", "code", "exists", "duplicate", "gen"})
    => /\ pc[p] = "done"
       /\ result[p].err # Nil
       /\ hist[p].creates = 0
       /\ hist[p].stored = NoRec
       /\ hist[p].stage \in {"url", "code"} => hist[p].calls = 0 /\ http[p] = NoHttp

\* every generated code was found taken and the call gave up
C10_Witness ==
  \E p \in Procs :
    /\ Creating(p)
    /\ hist[p].stage = "gen"
    /\ hist[p].existsTrue = MaxAttempts
    /\ IsErr(result[p].err, ErrorCodeInternal)
    /\ hist[p].creates = 0

LookingUp(p) == pc[p] \in {"r_get", "s_get", "u_get", "d_get"} /\ pc'[p] # pc[p]

Holds(shortCode) == \E r \in store : r.short_code = shortCode

\* C11: once CreateShortURL has succeeded with URL u and custom code c, and
\* while the record it wrote is still stored with that URL, a lookup of c that
\* the store answers returns a record with url = u and shortCode = c.
C11_CreatedIsFound ==
  [][\A p \in Procs : \A q \in Procs :
       ( /\ Creating(p) /\ Succeeded(p) /\ req[p].custom.set
         /\ pc[q] \in {"r_get", "s_get"} /\ pc'[q] # pc[q]
         /\ req[q].code = req[p].custom.val
         /\ \E r \in store : r.id = hist[p].stored.id /\ r.url = hist[p].stored.url
         /\ Answered(http'[q]) )
       => LET got == IF pc[q] = "s_get" THEN result'[q].rec ELSE loc'[q].rec IN
          /\ pc[q] = "s_get" => result'[q].done /\ result'[q].err = Nil
          /\ pc[q] = "r_get" => pc'[q] = "r_inc_get"
          /\ got.url = req[p].url
          /\ got.short_code = req[p].custom.val
          /\ got.id = hist[p].stored.id]_vars

\* a create with a custom code succeeded and a statistics lookup then
\* returned the record it wrote
C11_Witness ==
  \E p \in Procs : \E q \in Procs :
    /\ Creating(p) /\ Succeeded(p) /\ req[p].custom.set
    /\ req[q].op = "stats" /\ Succeeded(q)
    /\ req[q].code = req[p].custom.val
    /\ result[q].rec.id = hist[p].stored.id
    /\ result[q].rec.url = req[p].url

\* C12: every stored record has a short code of 4 to 20 alphanumeric
\* characters, a URL of at most 2048 characters that parses, has scheme http
\* or https and a host that is not blocked, and a non-negative access count;
\* a record is written with access count 0.
C12_PersistedRecordsValid ==
  /\ \A r \in store :
       /\ Len(r.short_code) >= 4 /\ Len(r.short_code) <= 20
       /\ \A i \in 1..Len(r.short_code) :
            r.short_code[i] \in Digits \cup LowerLetters \cup UpperLetters
       /\ r.url.len <= 2048
       /\ r.url.parses
       /\ r.url.scheme \in {"http", "https"}
       /\ ToLower(r.url.host) \notin BlockedDomains
       /\ r.access_count >= 0
  /\ \A p \in Procs : hist[p].stored # NoRec => hist[p].stored.access_count = 0

\* a record was created, and a record was given a new URL by an update
C12_Witness ==
  \E p \in Procs : \E q \in Procs :
    /\ Creating(p) /\ Succeeded(p)
    /\ \E r \in store : r.id = hist[p].stored.id
    /\ req[q].op = "update" /\ Succeeded(q)
    /\ \E r \in store : r.url = UrlExampleB /\ r = result[q].rec

\* C13, as amended: a step never changes the short code or the id of a
\* stored record, and it changes the URL of a record only when it is the
\* PATCH of an UpdateShortURL on that code which the store applies, and then
\* to the URL of that request; the call returns success exactly when the
\* answer of the store arrives and can be decoded.
C13_UrlChangedOnlyByAcceptedUpdate ==
  [][\A r \in store : \A r2 \in store' :
       /\ r2.id = r.id =>
            /\ r2.short_code = r.short_code
            /\ r2.url # r.url =>
                 \E p \in Procs :
                   /\ pc[p] = "u_patch" /\ req[p].op = "update"
                   /\ req[p].code = r.short_code
                   /\ pc'[p] = "done"
                   /\ http'[p].method = "PATCH"
                   /\ r2.url = req[p].url
                   /\ result'[p].err = Nil <=> Answered(http'[p])
       /\ r2.short_code = r.short_code => r2.id = r.id]_vars

\* an update gave a record a new URL and returned an InternalError, the
\* answer of the store to its PATCH being undecodable
C13_Witness ==
  \E p \in Procs :
    /\ req[p].op = "update" /\ pc[p] = "done"
    /\ http[p].method = "PATCH" /\ http[p].status = StatusOK /\ ~http[p].decodes
    /\ IsErr(result[p].err, ErrorCodeInternal)
    /\ result[p].err.err = DecodeErr
    /\ \E r \in store : r.short_code = req[p].code /\ r.url = UrlExampleB

\* C13, as stated: a step never changes the short code or the id of a stored
\* record, and it changes the URL of a record only when it is the PATCH of
\* an UpdateShortURL on that code which succeeds, and then to the URL of
\* that request.
C13_CodeIdUrlFrame ==
  [][\A r \in store : \A r2 \in store' :
       /\ r2.id = r.id =>
            /\ r2.short_code = r.short_code
            /\ r2.url # r.url =>
                 \E p \in Procs :
                   /\ pc[p] = "u_patch" /\ req[p].op = "update"
                   /\ req[p].code = r.short_code
                   /\ pc'[p] = "done" /\ result'[p].err = Nil
                   /\ r2.url = req[p].url
       /\ r2.short_code = r.short_code => r2.id = r.id]_vars

\* C14: when GetOriginalURL, GetStatistics, UpdateShortURL (its URL valid)
\* or DeleteShortURL looks up a code that has no stored record, and the
\* lookup reaches the store and its answer can be decoded when the code
\* comes to decode it, the call fails with a NotFoundError and the store is
\* unchanged.
C14_MissingCodeNotFound ==
  [][\A p \in Procs :
       ( /\ LookingUp(p) /\ ~Holds(req[p].code) /\ ~http'[p].err
         /\ http'[p].status = StatusOK => http'[p].decodes )
       => /\ pc'[p] = "done"
          /\ IsErr(result'[p].err, ErrorCodeNotFound)
          /\ store' = store]_vars

\* an update and a delete of a code without a record both ended NotFound
C14_Witness ==
  \E p \in Procs : \E q \in Procs :
    /\ req[p].op = "update" /\ pc[p] = "done"
    /\ IsErr(result[p].err, ErrorCodeNotFound)
    /\ req[q].op = "delete" /\ pc[q] = "done"
    /\ IsErr(result[q].err, ErrorCodeNotFound)
    /\ http[p].status = StatusOK /\ http[q].status = StatusOK
    /\ ~Holds(req[p].code)

\* C15: a lookup of a code for which the store holds a record never ends
\* with a NotFoundError.
C15_ExistingNeverNotFound ==
  [][\A p \in Procs :
       (LookingUp(p) /\ Holds(req[p].code))
       => ~IsErr(result'[p].err, ErrorCodeNotFound)]_vars

\* C16: the response to a failed call has the status of the kind of its
\* error: 400 for a ValidationError, 409 for a DuplicateError, 404 for a
\* NotFoundError and 500 for any other error.
C16_StatusByErrorKind ==
  \A p \in Procs :
    (pc[p] = "done" /\ result[p].err # Nil)
    => LET resp == handleServiceError(result[p].err) IN
       /\ resp.Code = resp.status
       /\ IsErr(result[p].err, ErrorCodeValidation) => resp.status = 400
       /\ IsErr(result[p].err, ErrorCodeDuplicate) => resp.status = 409
       /\ IsErr(result[p].err, ErrorCodeNotFound) => resp.status = 404
       /\ ( /\ ~IsErr(result[p].err, ErrorCodeValidation)
            /\ ~IsErr(result[p].err, ErrorCodeDuplicate)
            /\ ~IsErr(result[p].err, ErrorCodeNotFound) ) => resp.status = 500

\* one call ended with a DuplicateError and another with an InternalError
C16_Witness ==
  \E p \in Procs : \E q \in Procs :
    /\ pc[p] = "done" /\ IsErr(result[p].err, ErrorCodeDuplicate)
    /\ pc[q] = "done" /\ IsErr(result[q].err, ErrorCodeInternal)

\* the parts of the text of the cause an error wraps
CauseParts(e) == IF e.err = Nil THEN {} ELSE {Error(e.err)[i] : i \in 1..Len(Error(e.err))}

\* C17: the response to a call that failed with an InternalError contains no
\* part of the text of the cause the error wraps.
C17_InternalCauseNotSurfaced ==
  \A p \in Procs :
    (pc[p] = "done" /\ IsErr(result[p].err, ErrorCodeInternal))
    => LET resp == handleServiceError(result[p].err) IN
       /\ resp.Error \notin CauseParts(result[p].err)
       /\ \A i \in 1..Len(resp.Message) :
            resp.Message[i] \notin CauseParts(result[p].err)

Returned(fn) == call.fn = fn /\ call.done

\* C18: ValidateURL accepts a raw URL exactly when it has at most 2048
\* characters, parses, has scheme http or https and a lower-cased host that
\* is no blocked domain; a subdomain of a blocked domain is accepted.
\* Otherwise it returns a ValidationError with the reason of the first check
\* that fails, in the order length, format, scheme, blocked domain.
C18_ValidateURLChecks ==
  Returned("ValidateURL") =>
    LET u == call.arg
        tooLong == u.len > 2048
        badFormat == ~u.parses
        badScheme == u.scheme # "http" /\ u.scheme # "https"
        blocked == ToLower(u.host) \in {"malware.com", "phishing.com"}
    IN
    /\ call.ret = Nil <=> ~tooLong /\ ~badFormat /\ ~badScheme /\ ~blocked
    /\ call.ret # Nil =>
         /\ IsErr(call.ret, ErrorCodeValidation)
         /\ call.ret.message =
              (IF tooLong THEN "URL too long"
               ELSE IF badFormat THEN "invalid URL format"
               ELSE IF badScheme THEN "only HTTP and HTTPS URLs are allowed"
               ELSE "domain is blocked")
    /\ (~tooLong /\ ~badFormat /\ ~badScheme /\ u.host = "sub.malware.com")
         => call.ret = Nil

\* a URL of a subdomain of a blocked domain was accepted
C18_Witness ==
  /\ Returned("ValidateURL")
  /\ call.arg.host = "sub.malware.com" /\ call.arg.len = 2048
  /\ call.ret = Nil

\* C19: ValidateShortCode accepts a code exactly when its length is between
\* 4 and 20 and every character is in 0-9, a-z, A-Z; otherwise it returns a
\* ValidationError, and the one of the length when the length is out of
\* range, whatever the characters.
C19_ValidateShortCodeChecks ==
  Returned("ValidateShortCode") =>
    LET code == call.arg
        badLength == ByteLen(code) < 4 \/ ByteLen(code) > 20
        badChar == \E i \in 1..Len(code) :
                     code[i] \notin Digits \cup LowerLetters \cup UpperLetters
    IN
    /\ call.ret = Nil <=> ~badLength /\ ~badChar
    /\ call.ret # Nil =>
         /\ IsErr(call.ret, ErrorCodeValidation)
         /\ call.ret.message =
              (IF badLength THEN "short code must be between 4 and 20 characters"
               ELSE "short code can only contain alphanumeric characters")

\* a code that is too long and has a character outside the alphabet was
\* rejected for its length
C19_Witness ==
  /\ Returned("ValidateShortCode")
  /\ Len(call.arg) = 21 /\ call.arg[21] = "-"
  /\ IsErr(call.ret, ErrorCodeValidation)
  /\ call.ret.message = "short code must be between 4 and 20 characters"

\* C20: for a length L >= 0, and a random source that yields the L numbers
\* asked of it, GenerateShortCode(L) returns without error a string of L
\* characters of the alphabet 0-9a-zA-Z; for L = 0 it returns the empty
\* string without error and without asking the random source.
C20_GeneratedCodeShape ==
  Returned("GenerateShortCode") =>
    LET L == call.arg.length IN
    /\ (\A i \in 1..L : call.arg.rnd[i] >= 0) =>
         /\ call.ret.err = Nil
         /\ Len(call.ret.code) = L
         /\ \A i \in 1..L :
              call.ret.code[i] \in Digits \cup LowerLetters \cup UpperLetters
    /\ L = 0 => call.ret.err = Nil /\ call.ret.code = <<>>

\* a code of length 0 was asked for and the empty string returned, and the
\* random source would have failed had it been asked
C20_Witness ==
  /\ Returned("GenerateShortCode")
  /\ call.arg.length = 0 /\ call.arg.rnd[1] = -1
  /\ call.ret = [code |-> <<>>, err |-> Nil]

Active(p) == pc[p] \notin {"idle", "done"}

\* C21: every service operation returns, also when the record store has
\* stopped answering: a request that has been taken up is eventually done.
C21_OperationsReturn ==
  \A p \in Procs : Active(p) ~> pc[p] = "done"

\* the store stopped answering after the existence check of a create, and
\* the create call came back with the error of its deadline
C21_Witness ==
  /\ hung
  /\ \E p \in Procs :
       /\ Creating(p) /\ pc[p] = "done"
       /\ http[p].method = "POST" /\ http[p].err
       /\ IsErr(result[p].err, ErrorCodeInternal)

\* the part of the state that a step of request p writes
Trail(p) == <<pc[p], hist[p], http[p], loc[p], result[p]>>

\* C22, as stated: the next step of a request whose context has been
\* cancelled ends the call with an error, reaches the store with no request,
\* writes nothing and begins no turn of the generation loop; a create
\* cancelled before its create call has written no record.
C22_CancelledStartsNoAttempt ==
  [][\A p \in Procs :
       (p \in cancelled /\ Active(p) /\ Trail(p)' # Trail(p))
       => /\ pc'[p] = "done"
          /\ result'[p].err # Nil
          /\ store' = store
          /\ nextId' = nextId
          /\ hist'[p].stored = NoRec
          /\ hist'[p].gens = hist[p].gens
          /\ hist'[p].existsTrue = hist[p].existsTrue
          /\ hist'[p].calls > hist[p].calls => http'[p].err /\ http'[p].status = 0]_vars

\* C22: the next step of a request whose context has been cancelled ends
\* the call with an error. The step makes at most one call to the repository,
\* which returns the error of the context and sends no request, so that the
\* store is unchanged, no write is repeated and a create cancelled before its
\* create call has written no record. When the request is in the generation
\* loop the step is one more turn: one code is generated, its existence check
\* fails without being sent, and no turn follows it.
C22_CancelledEndsAtNextCall ==
  [][\A p \in Procs :
       (p \in cancelled /\ Active(p) /\ Trail(p)' # Trail(p))
       => /\ pc'[p] = "done"
          /\ result'[p].err # Nil
          /\ store' = store
          /\ nextId' = nextId
          /\ hist'[p].stored = NoRec
          /\ hist'[p].calls <= hist[p].calls + 1
          /\ hist'[p].creates <= hist[p].creates + 1
          /\ hist'[p].exists <= hist[p].exists + 1
          /\ hist'[p].existsTrue = hist[p].existsTrue
          /\ hist'[p].free = hist[p].free
          /\ hist'[p].calls > hist[p].calls => http'[p].err /\ http'[p].status = 0
          /\ IF pc[p] = "g_iter"
               THEN /\ hist'[p].gens = hist[p].gens + 1
                    /\ hist'[p].creates = hist[p].creates
               ELSE hist'[p].gens = hist[p].gens]_vars

\* a create was cancelled after a turn of the generation loop had found its
\* code taken: a second code was generated, its existence check returned the
\* error of the context, and the create failed without a create call
C22_Witness ==
  \E p \in cancelled :
    /\ Creating(p) /\ pc[p] = "done"
    /\ ~req[p].custom.set
    /\ hist[p].gens = 2 /\ hist[p].exists = 2 /\ hist[p].existsTrue = 1
    /\ hist[p].creates = 0 /\ hist[p].stage = "exists"
    /\ http[p].method = "GET" /\ http[p].err
    /\ IsErr(result[p].err, ErrorCodeInternal)
    /\ store # {} /\ nextId = Cardinality(store) + 1

\* e is cause, or wraps it at some depth
RECURSIVE Wraps(_, _)
Wraps(e, cause) ==
  \/ e = cause
  \/ IsServiceError(e) /\ e.err # Nil /\ Wraps(e.err, cause)

Stepped(p, at) == pc[p] = at /\ pc'[p] # pc[p]

\* C23: when the random source fails in a turn of the generation loop (a
\* code is asked for and no existence check follows), CreateShortURL ends at
\* that step with an InternalError that wraps the error of the source; it
\* makes no further call to the store and creates no record.
C23_RandomFailureIsFatal ==
  [][\A p \in Procs :
       ( /\ pc[p] = "g_iter"
         /\ hist'[p].gens = hist[p].gens + 1
         /\ hist'[p].exists = hist[p].exists )
       => /\ pc'[p] = "done"
          /\ IsErr(result'[p].err, ErrorCodeInternal)
          /\ Wraps(result'[p].err, RandErr)
          /\ result'[p].rec = NoRec
          /\ hist'[p].creates = 0
          /\ hist'[p].calls = hist[p].calls
          /\ http'[p] = http[p]
          /\ store' = store]_vars

\* the first generated code was taken and the random source failed on the
\* second
C23_Witness ==
  \E p \in Procs :
    /\ Creating(p) /\ pc[p] = "done"
    /\ hist[p].gens = 2 /\ hist[p].exists = 1 /\ hist[p].existsTrue = 1
    /\ hist[p].creates = 0
    /\ Wraps(result[p].err, RandErr)

\* C24: IsValidShortCode is true exactly for the non-empty strings all of
\* whose characters are in 0-9, a-z, A-Z, and it is true of every non-empty
\* code GenerateShortCode returns.
C24_IsValidShortCodeBase62 ==
  /\ Returned("IsValidShortCode") =>
       (call.ret <=>
          /\ call.arg # <<>>
          /\ \A i \in 1..Len(call.arg) :
               call.arg[i] \in Digits \cup LowerLetters \cup UpperLetters)
  /\ (Returned("GenerateShortCode") /\ call.ret.err = Nil /\ call.ret.code # <<>>)
       => IsValidShortCode(call.ret.code)
  /\ (Returned("GenerateShortCode") /\ call.ret.err = Nil /\ call.ret.code = <<>>)
       => ~IsValidShortCode(call.ret.code)

\* a code with an underscore was found invalid
C24_Witness ==
  /\ Returned("IsValidShortCode")
  /\ call.arg = <<"a", "_", "b", "c">>
  /\ call.ret = FALSE

\* C25: GetOriginalURL ends with a NotFoundError only at its first lookup,
\* when that lookup returned no record; when the increment that follows
\* fails, at its lookup or at its PATCH, the call ends with an InternalError
\* and returns no record.
C25_NotFoundOnlyFromFirstLookup ==
  [][\A p \in Procs :
       (req[p].op = "get" /\ Active(p) /\ pc'[p] = "done")
       => /\ IsErr(result'[p].err, ErrorCodeNotFound)
               => pc[p] = "r_get" /\ loc'[p].rec = NoRec
          /\ (pc[p] \in {"r_inc_get", "r_inc_patch"} /\ result'[p].err # Nil)
               => /\ IsErr(result'[p].err, ErrorCodeInternal)
                  /\ result'[p].rec = NoRec
                  /\ loc[p].rec # NoRec]_vars

\* a read found the record, another request deleted it, and the increment
\* of the read then found nothing: the read ended with an InternalError
C25_Witness ==
  \E p \in Procs : \E q \in Procs :
    /\ req[p].op = "get" /\ pc[p] = "done"
    /\ loc[p].rec # NoRec
    /\ IsErr(result[p].err, ErrorCodeInternal)
    /\ IsErr(result[p].err.err, ErrorCodeNotFound)
    /\ http[p].status = StatusOK
    /\ req[q].op = "delete" /\ Succeeded(q) /\ req[q].code = req[p].code

\* C26: the PATCH of an update leaves the access count of every record as
\* it was, the PATCH of an increment leaves every URL as it was, and the
\* access count of a record changes at no other step than the PATCH of an
\* increment.
C26_UpdateAndIncrementDisjoint ==
  [][\A r \in store : \A r2 \in store' :
       r2.id = r.id =>
         /\ (\E p \in Procs : Stepped(p, "u_patch"))
              => r2.access_count = r.access_count
         /\ (\E p \in Procs : Stepped(p, "r_inc_patch")) => r2.url = r.url
         /\ r2.access_count # r.access_count
              => \E p \in Procs : /\ Stepped(p, "r_inc_patch")
                                  /\ loc[p].cur.id = r.id
                                  /\ r2.access_count = loc[p].cur.access_count + 1]_vars

\* an update came between the lookup and the increment of a read: the read
\* returned the old URL, the update returned count 0, and the record has the
\* new URL and count 1
C26_Witness ==
  \E p \in Procs : \E q \in Procs :
    /\ req[p].op = "get" /\ Succeeded(p) /\ result[p].rec.url = UrlExampleA
    /\ req[q].op = "update" /\ Succeeded(q) /\ result[q].rec.access_count = 0
    /\ \E r \in store : /\ r.id = result[p].rec.id /\ r.id = result[q].rec.id
                         /\ r.url = UrlExampleB /\ r.access_count = 1

\* C27: CreateShortURL calls the persistence create only as its last step
\* and only once, for the code of its last existence check, which returned
\* false; whether the create succeeds or fails, the call ends there.
C27_CreateOnceAfterCheck ==
  [][\A p \in Procs :
       /\ Stepped(p, "c_create")
            => /\ hist[p].creates = 0 /\ hist'[p].creates = 1
               /\ hist[p].exists >= 1
               /\ hist[p].free = loc[p].shortCode
               /\ http'[p].method = "POST"
               /\ pc'[p] = "done"
       /\ (Creating(p) /\ hist'[p].creates > hist[p].creates) => pc[p] = "c_create"
       /\ (Creating(p) /\ pc[p] = "done") => hist'[p].creates <= 1]_vars

\* a create that the store answered with an error status was not retried
C27_Witness ==
  \E p \in Procs :
    /\ Creating(p) /\ pc[p] = "done"
    /\ hist[p].creates = 1 /\ hist[p].gens = 1 /\ hist[p].exists = 1
    /\ http[p].method = "POST" /\ http[p].status = StatusInternalServerError
    /\ IsErr(result[p].err, ErrorCodeInternal)
    /\ ~Holds(loc[p].shortCode)

\* C28: a DeleteShortURL that succeeds leaves no record of its code; while a
\* code has no record, get, statistics, update and delete of it that reach
\* the store end with NotFoundError; a create with that code as custom code
\* that the store answers goes through (an answer that is decoded is one
\* that can be); and a record that appears in the
\* store has access count 0, whatever count an earlier record of the code had.
C28_DeletedUntilCreatedAgain ==
  [][/\ \A p \in Procs :
          (Stepped(p, "d_delete") /\ result'[p].err = Nil)
          => /\ \E r \in store : r.short_code = req[p].code
             /\ ~\E r \in store' : r.short_code = req[p].code
     /\ \A p \in Procs :
          ( /\ LookingUp(p) /\ ~Holds(req[p].code) /\ ~http'[p].err
            /\ http'[p].status = StatusOK => http'[p].decodes )
          => pc'[p] = "done" /\ IsErr(result'[p].err, ErrorCodeNotFound)
     /\ \A p \in Procs :
          ( /\ Stepped(p, "c_exists") /\ ~Holds(req[p].custom.val)
            /\ Answered(http'[p]) )
          => pc'[p] = "c_create" /\ loc'[p].shortCode = req[p].custom.val
     /\ \A p \in Procs :
          ( /\ Stepped(p, "c_create") /\ ~Holds(loc[p].shortCode)
            /\ Answered(http'[p]) )
          => /\ result'[p].err = Nil
             /\ result'[p].rec.access_count = 0
             /\ result'[p].rec.short_code = loc[p].shortCode
     /\ \A r2 \in store' :
          (~\E r \in store : r.id = r2.id)
          => /\ r2.access_count = 0
             /\ \E p \in Procs : Stepped(p, "c_create") /\ r2.short_code = loc[p].shortCode
    ]_vars

\* a record was read, then deleted, and its code was then created again as
\* a custom code: the new record has access count 0
C28_Witness ==
  \E p \in Procs : \E id \in DOMAIN okReads :
    /\ okReads[id] >= 1
    /\ ~\E r \in store : r.id = id
    /\ Creating(p) /\ Succeeded(p) /\ req[p].custom.set
    /\ hist[p].stored \in store
    /\ hist[p].stored.id > id
    /\ hist[p].stored.short_code = CodeAbc123
    /\ hist[p].stored.access_count = 0

\* C29: the lookup of GetStatistics changes nothing in the store, and the
\* record it returns is a stored record of the code asked for, with the
\* access count it has in the store at that step.
C29_StatisticsReadOnly ==
  [][\A p \in Procs :
       Stepped(p, "s_get")
       => /\ store' = store
          /\ nextId' = nextId
          /\ pc'[p] = "done"
          /\ result'[p].err = Nil
               => /\ result'[p].rec \in store
                  /\ result'[p].rec.short_code = req[p].code]_vars

\* statistics reported the count 1 that a read had written
C29_Witness ==
  \E p \in Procs : \E q \in Procs :
    /\ req[p].op = "stats" /\ Succeeded(p) /\ result[p].rec.access_count = 1
    /\ req[q].op = "get" /\ Succeeded(q) /\ result[q].rec.id = result[p].rec.id
    /\ result[p].rec \in store

\* a URL that is too long, does not parse, has another scheme than http or
\* https, or has a blocked host
InvalidURL(u) ==
  \/ u.len > 2048
  \/ ~u.parses
  \/ u.scheme \notin {"http", "https"}
  \/ ToLower(u.host) \in {"malware.com", "phishing.com"}

\* C30: an UpdateShortURL with an invalid URL ends at once with a
\* ValidationError, has made no call to the store and leaves the store as it
\* was, whether or not the code has a record.
C30_InvalidUpdateRejectedFirst ==
  [][\A p \in Procs :
       (pc[p] = "idle" /\ req'[p].op = "update" /\ InvalidURL(req'[p].url))
       => /\ pc'[p] = "done"
          /\ IsErr(result'[p].err, ErrorCodeValidation)
          /\ hist'[p].calls = 0
          /\ http'[p] = NoHttp
          /\ store' = store]_vars

\* an update with a blocked URL of a code without a record ended with a
\* ValidationError, where statistics of that code ended with NotFoundError
C30_Witness ==
  \E p \in Procs : \E q \in Procs :
    /\ req[p].op = "update" /\ pc[p] = "done"
    /\ req[p].url = UrlBlocked
    /\ IsErr(result[p].err, ErrorCodeValidation)
    /\ hist[p].calls = 0
    /\ ~Holds(req[p].code)
    /\ req[q].op = "stats" /\ pc[q] = "done" /\ req[q].code = req[p].code
    /\ http[q].status = StatusOK
    /\ IsErr(result[q].err, ErrorCodeNotFound)

====
